---- MODULE Spec2Model ----
(***************************************************************************)
(* Model of Apps/app.py: the OAuth-token / connection-pool globals, the    *)
(* query functions built on get_connection, and the Dash callbacks that    *)
(* write the dcc.Store components.                                         *)
(***************************************************************************)
EXTENDS Integers, Sequences, FiniteSets, TLC

VARIABLES
    now,                    \* the value time.time() returns next
    environ,                \* os.environ: variable name -> value (None = unset)
    workspace_client,       \* TRUE iff the module global is not None
    postgres_password,      \* None, "" or a token
    last_password_refresh,  \* time of the last successful token fetch
    connection_pool,        \* NoPool (None) or the index of a pool in pools
    connection_status,      \* [status, message]
    pools,                  \* every ConnectionPool built so far: [password, open]
    threads,                \* the get_connection calls in progress, step by step
    orders_store,           \* dcc.Store 'orders-store'
    selected_retailer_store,\* dcc.Store 'selected-retailer-store'
    search_message,         \* children of 'search-message'
    adverse_events_store,   \* dcc.Store 'adverse-events-store'
    analysis_results_store, \* dcc.Store 'analysis-results-store'
    analysis_loading,       \* children of 'analysis-loading'
    analysis_results_container, \* children of 'analysis-results-container'
    adverse_events_container,   \* children of 'adverse-events-container'
    pending,                \* callbacks triggered by a store update, not yet run
    call                    \* trace of the last handler that ran

connVars == <<now, environ, workspace_client, postgres_password,
              last_password_refresh, connection_pool, connection_status, pools,
              threads>>

searchVars == <<orders_store, selected_retailer_store, search_message,
                adverse_events_store, adverse_events_container, pending>>

analysisVars == <<analysis_results_store, analysis_loading,
                  analysis_results_container>>

vars == <<connVars, searchVars, analysisVars, call>>

-----------------------------------------------------------------------------
(* Bounds of the model *)

MaxTime == 1802
MaxPools == 2

-----------------------------------------------------------------------------
(* Python values *)

None == "None"

\* a value that may be None where the other values are not strings:
\* <<>> is None, <<v>> is the value v
NoneV == <<>>
Some(v) == <<v>>

NoPool == 0

Truthy(v) == v # None /\ v # ""

\* The element of a singleton.  The({body : x \in {e}}) is body with x bound
\* to the value of e, so that e is computed once however often body uses x.
The(S) == CHOOSE x \in S : TRUE

TokenLifetime == 900

\* clock advances between two handlers, and between two reads of time.time()
\* inside one handler
Ticks == {450, 451}
Delays == {0, 450}

Tokens == {"t1", "t2"}

\* what workspace_client.config.oauth_token().access_token can do:
\* raise, or return None, "" or a token
FetchOutcomes ==
    {[ok |-> FALSE, token |-> None]} \cup
    {[ok |-> TRUE, token |-> t] : t \in Tokens \cup {None, ""}}

\* the outcomes of the library calls of one get_connection call
Oracles(delays) ==
    [initOk : BOOLEAN, fetch : FetchOutcomes, createOk : BOOLEAN,
     connOk : BOOLEAN, d1 : delays, d2 : delays]

-----------------------------------------------------------------------------
(* The module globals as one record, so that nested calls compose *)

Globals ==
    [now |-> now, environ |-> environ, workspace_client |-> workspace_client,
     postgres_password |-> postgres_password,
     last_password_refresh |-> last_password_refresh,
     connection_pool |-> connection_pool,
     connection_status |-> connection_status, pools |-> pools,
     ret |-> FALSE,
     nInit |-> 0, nFetch |-> 0, nCreate |-> 0, nClose |-> 0,
     refresh |-> [called |-> FALSE]]

Status(s, m) == [status |-> s, message |-> m]

\* initialize_databricks_client: DATABRICKS_TOKEN is popped for the duration
\* of sdk.WorkspaceClient() and restored only if it was truthy
InitializeDatabricksClient(g, initOk) ==
    LET databricks_token == g.environ["DATABRICKS_TOKEN"]
        popped == [g.environ EXCEPT !["DATABRICKS_TOKEN"] = None]
        restored == IF Truthy(databricks_token)
                    THEN [popped EXCEPT !["DATABRICKS_TOKEN"] = databricks_token]
                    ELSE popped
    IN  IF initOk
        THEN [g EXCEPT !.workspace_client = TRUE,
                       !.connection_status =
                           Status("databricks_ok", "Databricks client initialized"),
                       !.environ = restored,
                       !.nInit = @ + 1,
                       !.ret = TRUE]
        ELSE [g EXCEPT !.connection_status =
                           Status("databricks_error", "Databricks initialization failed: "),
                       !.environ = restored,
                       !.nInit = @ + 1,
                       !.ret = FALSE]

\* faulty variant: a token of exactly 900 seconds counts as expired
TokenExpired_Inclusive(g, t) ==
    g.postgres_password = None \/ t - g.last_password_refresh >= TokenLifetime

\* the expiry test of lines 52 and 127, at clock reading t
TokenExpired(g, t) ==
    g.postgres_password = None \/ t - g.last_password_refresh > TokenLifetime

\* faulty variant: a failed fetch is tried a second time before giving up
FetchToken_Retry(g, o) ==
    IF o.fetch.ok
    THEN [g EXCEPT !.postgres_password = o.fetch.token,
                   !.now = g.now + o.d2,
                   !.last_password_refresh = g.now + o.d2,
                   !.connection_status =
                       Status("token_ok", "OAuth token refreshed successfully"),
                   !.nFetch = @ + 1,
                   !.ret = TRUE]
    ELSE [g EXCEPT !.connection_status =
                       Status("token_error", "Failed to refresh OAuth token: "),
                   !.nFetch = @ + 2,
                   !.ret = FALSE]

\* the try block of refresh_oauth_token (lines 60-72)
FetchToken(g, o) ==
    IF o.fetch.ok
    THEN [g EXCEPT !.postgres_password = o.fetch.token,
                   !.now = g.now + o.d2,
                   !.last_password_refresh = g.now + o.d2,
                   !.connection_status =
                       Status("token_ok", "OAuth token refreshed successfully"),
                   !.nFetch = @ + 1,
                   !.ret = TRUE]
    ELSE [g EXCEPT !.connection_status =
                       Status("token_error", "Failed to refresh OAuth token: "),
                   !.nFetch = @ + 1,
                   !.ret = FALSE]

\* the body of refresh_oauth_token, the clock reading g.now being the one of
\* line 52
RefreshBody(g, o) ==
    IF TokenExpired(g, g.now)
    THEN IF ~g.workspace_client
         THEN The({ IF ~g1.ret
                    THEN [g1 EXCEPT !.ret = FALSE]
                    ELSE FetchToken(g1, o)
                    : g1 \in {InitializeDatabricksClient(g, o.initOk)} })
         ELSE FetchToken(g, o)
    ELSE [g EXCEPT !.ret = TRUE]

\* the globals refresh_oauth_token reads and writes
TokenState(g) ==
    [postgres_password |-> g.postgres_password,
     last_password_refresh |-> g.last_password_refresh,
     connection_status |-> g.connection_status,
     workspace_client |-> g.workspace_client,
     now |-> g.now]

\* refresh_oauth_token; the refresh field records the call: the globals
\* before and after it, whether it fetched, and what it returned
RefreshOAuthToken(g, o) ==
    The({ The({ [r EXCEPT !.refresh = [called |-> TRUE,
                                       before |-> TokenState(g0),
                                       after |-> TokenState(r),
                                       fetched |-> r.nFetch > g.nFetch,
                                       ret |-> r.ret]]
                : r \in {RefreshBody(g0, o)} })
          : g0 \in {[g EXCEPT !.now = g.now + o.d1]} })

required_vars == <<"PGDATABASE", "PGUSER", "PGHOST", "PGPORT", "PGSCHEMA">>

missing_vars(env) ==
    SelectSeq(required_vars, LAMBDA v : ~Truthy(env[v]))

\* ConnectionPool(conn_string, ...) of line 109
CreatePool(g, o) ==
    IF o.createOk
    THEN [g EXCEPT !.pools = Append(@, [password |-> g.postgres_password,
                                        open |-> TRUE]),
                   !.connection_pool = Len(g.pools) + 1,
                   !.connection_status = Status("connected", "Connected to "),
                   !.nCreate = @ + 1,
                   !.ret = Len(g.pools) + 1]
    ELSE [g EXCEPT !.connection_status =
                       Status("connection_error", "Failed to create connection pool: "),
                   !.nCreate = @ + 1,
                   !.ret = NoPool]

\* lines 80-118 of get_connection_pool: the branch taken when
\* connection_pool is None
BuildPool(g, o) ==
    IF missing_vars(g.environ) # <<>>
    THEN [g EXCEPT !.connection_status =
                       Status("env_error", "Missing environment variables: "),
                   !.ret = NoPool]
    ELSE The({ IF ~g1.ret
               THEN [g1 EXCEPT !.ret = NoPool]
               ELSE IF ~Truthy(g1.postgres_password)
               THEN [g1 EXCEPT !.connection_status =
                                   Status("token_error", "No OAuth token available"),
                               !.ret = NoPool]
               ELSE CreatePool(g1, o)
               : g1 \in {RefreshOAuthToken(g, o)} })

\* faulty variant: the pool is built on every call, whether or not one exists
GetConnectionPool_AlwaysBuild(g, o) == BuildPool(g, o)

\* get_connection_pool; ret is the pool returned (NoPool for None)
GetConnectionPool(g, o) ==
    IF g.connection_pool = NoPool
    THEN BuildPool(g, o)
    ELSE [g EXCEPT !.ret = g.connection_pool]

\* faulty variant: the pool is kept whatever the age of the token
ClosePoolIfExpired_Skip(g) == g

\* lines 127-130 of get_connection: drop the pool of an expired token
ClosePoolIfExpired(g) ==
    IF TokenExpired(g, g.now) /\ g.connection_pool # NoPool
    THEN [g EXCEPT !.pools[g.connection_pool].open = FALSE,
                   !.connection_pool = NoPool,
                   !.nClose = @ + 1]
    ELSE g

\* faulty variant: a failure of pool.connection() returns None and sets no status
GetConnection_SilentFailure(g, o) ==
    The({ The({ IF g2.ret = NoPool
                THEN g2
                ELSE IF o.connOk /\ g2.pools[g2.ret].open
                THEN g2
                ELSE [g2 EXCEPT !.ret = NoPool]
                : g2 \in {GetConnectionPool(g1, o)} })
          : g1 \in {ClosePoolIfExpired(g)} })

\* get_connection; ret is the pool the returned connection belongs to
\* (NoPool when get_connection returns None)
GetConnection(g, o) ==
    The({ The({ IF g2.ret = NoPool
                THEN g2
                ELSE IF o.connOk /\ g2.pools[g2.ret].open
                THEN g2
                ELSE [g2 EXCEPT !.connection_status =
                                    Status("connection_error",
                                           "Failed to get connection: "),
                                !.ret = NoPool]
                : g2 \in {GetConnectionPool(g1, o)} })
          : g1 \in {ClosePoolIfExpired(g)} })

-----------------------------------------------------------------------------
(* State after import: line 15 (load_dotenv), lines 18-22, line 282 *)

EnvNames == {"DATABRICKS_TOKEN", "PGDATABASE", "PGUSER", "PGHOST", "PGPORT", "PGSCHEMA"}

FullEnv == [v \in EnvNames |-> "set"]

EnvChoices ==
    {[FullEnv EXCEPT !["DATABRICKS_TOKEN"] = d] : d \in {None, "", "set"}} \cup
    {[FullEnv EXCEPT !["PGHOST"] = None], [FullEnv EXCEPT !["PGUSER"] = ""]}

Startup(env, initOk) ==
    InitializeDatabricksClient(
        [now |-> 0, environ |-> env, workspace_client |-> FALSE,
         postgres_password |-> None, last_password_refresh |-> 0,
         connection_pool |-> NoPool,
         connection_status |-> Status("not_initialized", ""),
         pools |-> <<>>, ret |-> FALSE,
         nInit |-> 0, nFetch |-> 0, nCreate |-> 0, nClose |-> 0,
         refresh |-> [called |-> FALSE]],
        initOk)

NoConn == [called |-> FALSE]

\* the children of a html.Div of the layout that no callback has written
Unset == [kind |-> "unset"]

\* the children a callback returns as the empty string
EmptyText == [kind |-> "text", text |-> ""]

NoCall == [op |-> "none", conn |-> NoConn]

\* the server threads that run callbacks side by side
Callers == {"c1", "c2"}

\* a thread that is not inside get_connection, with the locals of the
\* functions it runs: databricks_token and the outcome of
\* initialize_databricks_client, pool of get_connection, and the pool of the
\* connection it was given with whether that pool was open at that moment
IdleThread ==
    [pc |-> "idle", databricks_token |-> None, init_ok |-> FALSE,
     pool |-> NoPool, conn |-> NoPool, from_open |-> FALSE, result |-> "none"]

\* the module globals after import
InitGlobals ==
    \E env \in EnvChoices, initOk \in BOOLEAN :
        LET g == Startup(env, initOk)
        IN  /\ now = 0
            /\ environ = g.environ
            /\ workspace_client = g.workspace_client
            /\ postgres_password = None
            /\ last_password_refresh = 0
            /\ connection_pool = NoPool
            /\ connection_status = g.connection_status
            /\ pools = <<>>
            /\ threads = [t \in Callers |-> IdleThread]

\* the layout: no dcc.Store has data, no message is shown
InitLayout ==
    /\ orders_store = NoneV
    /\ selected_retailer_store = NoneV
    /\ search_message = None
    /\ adverse_events_store = NoneV
    /\ analysis_results_store = NoneV
    /\ analysis_loading = None
    /\ analysis_results_container = Unset
    /\ adverse_events_container = Unset
    /\ pending = {}

Init ==
    /\ InitGlobals
    /\ InitLayout
    /\ call = NoCall

\* the globals after a handler
SetGlobals(g) ==
    /\ g.now <= MaxTime
    /\ Len(g.pools) <= MaxPools
    /\ now' = g.now
    /\ environ' = g.environ
    /\ workspace_client' = g.workspace_client
    /\ postgres_password' = g.postgres_password
    /\ last_password_refresh' = g.last_password_refresh
    /\ connection_pool' = g.connection_pool
    /\ connection_status' = g.connection_status
    /\ pools' = g.pools
    /\ UNCHANGED threads

\* what one get_connection call did, with the globals it started from
ConnTrace(g, r) ==
    [called |-> TRUE,
     pool_before |-> g.connection_pool,
     password_before |-> g.postgres_password,
     last_before |-> g.last_password_refresh,
     status_before |-> g.connection_status,
     t_check |-> g.now,
     expired |-> TokenExpired(g, g.now),
     result |-> r.ret,
     nInit |-> r.nInit, nFetch |-> r.nFetch,
     nCreate |-> r.nCreate, nClose |-> r.nClose,
     env_missing |-> missing_vars(g.environ) # <<>>,
     refresh |-> r.refresh]

\* time passes between two handlers
Tick ==
    /\ \E d \in Ticks :
        /\ now + d <= MaxTime
        /\ now' = now + d
    /\ call' = NoCall
    /\ UNCHANGED <<environ, workspace_client, postgres_password,
                   last_password_refresh, connection_pool, connection_status, pools,
                   threads>>
    /\ UNCHANGED <<searchVars, analysisVars>>

\* The oracles that can matter to a get_connection call from g: a library call
\* that the call cannot reach from g keeps one fixed outcome.
DefaultOracle ==
    [initOk |-> TRUE, fetch |-> [ok |-> FALSE, token |-> None],
     createOk |-> TRUE, connOk |-> TRUE, d1 |-> 0, d2 |-> 0]

OraclesFor(g, delays) ==
    IF g.connection_pool # NoPool /\ ~TokenExpired(g, g.now)
    THEN {[DefaultOracle EXCEPT !.connOk = c] : c \in BOOLEAN}
    ELSE IF missing_vars(g.environ) # <<>>
    THEN {DefaultOracle}
    ELSE {o \in Oracles(delays) :
             /\ g.workspace_client => o.initOk
             /\ ~o.initOk =>
                   o = [DefaultOracle EXCEPT !.initOk = FALSE, !.d1 = o.d1]
             /\ ~(o.fetch.ok /\ Truthy(o.fetch.token)) => (o.createOk /\ o.connOk)
             /\ ~o.fetch.ok => o.d2 = 0
             /\ ~o.createOk => o.connOk}

\* one call of get_connection()
GetConnectionCall ==
    \E g \in {Globals} :
    \E o \in OraclesFor(g, Delays) :
    \E r \in {GetConnection(g, o)} :
            /\ SetGlobals(r)
            /\ call' = [op |-> "get_connection", conn |-> ConnTrace(g, r)]
            /\ UNCHANGED <<searchVars, analysisVars>>

Next == Tick \/ GetConnectionCall

Spec == Init /\ [][Next]_vars

-----------------------------------------------------------------------------
(* get_connection run by several threads: one action for each read or write
   of a module global or of os.environ.  The pc of a thread names the line
   it executes next. *)

appVars == <<searchVars, analysisVars>>

\* the clock stops here when threads run side by side
MaxConcTime == 901

\* the thread moves on, its other locals unchanged
Goto(t, pc) == threads' = [threads EXCEPT ![t].pc = pc]

\* get_connection returns None or raises
Return(t, result) ==
    threads' = [threads EXCEPT ![t] = [IdleThread EXCEPT !.pc = "returned",
                                                         !.result = result]]

\* a callback calls get_connection: line 127
CheckExpiry(t) ==
    /\ threads[t].pc = "idle"
    /\ Goto(t, IF TokenExpired(Globals, now) THEN "128" ELSE "79")
    /\ UNCHANGED <<now, environ, workspace_client, postgres_password,
                   last_password_refresh, connection_pool, connection_status,
                   pools, appVars>>
    /\ call' = NoCall

\* line 128: `if connection_pool:`
TestPool(t) ==
    /\ threads[t].pc = "128"
    /\ Goto(t, IF connection_pool # NoPool THEN "129" ELSE "79")
    /\ UNCHANGED <<now, environ, workspace_client, postgres_password,
                   last_password_refresh, connection_pool, connection_status,
                   pools, appVars>>
    /\ call' = NoCall

\* line 129: connection_pool.close() reads the global again; None has no close
ClosePool(t) ==
    /\ threads[t].pc = "129"
    /\ IF connection_pool = NoPool
       THEN /\ Return(t, "AttributeError")
            /\ UNCHANGED pools
       ELSE /\ pools' = [pools EXCEPT ![connection_pool].open = FALSE]
            /\ Goto(t, "130")
    /\ UNCHANGED <<now, environ, workspace_client, postgres_password,
                   last_password_refresh, connection_pool, connection_status,
                   appVars>>
    /\ call' = NoCall

\* line 130
ClearPool(t) ==
    /\ threads[t].pc = "130"
    /\ connection_pool' = NoPool
    /\ Goto(t, "79")
    /\ UNCHANGED <<now, environ, workspace_client, postgres_password,
                   last_password_refresh, connection_status, pools, appVars>>
    /\ call' = NoCall

\* lines 79-89: `if connection_pool is None:` and the environment check
TestPoolNone(t) ==
    /\ threads[t].pc = "79"
    /\ IF connection_pool # NoPool
       THEN /\ Goto(t, "120")
            /\ UNCHANGED connection_status
       ELSE IF missing_vars(environ) # <<>>
       THEN /\ connection_status' =
                   Status("env_error", "Missing environment variables: ")
            /\ Return(t, "None")
       ELSE /\ Goto(t, "52")
            /\ UNCHANGED connection_status
    /\ UNCHANGED <<now, environ, workspace_client, postgres_password,
                   last_password_refresh, connection_pool, pools, appVars>>
    /\ call' = NoCall

\* lines 52-56 of refresh_oauth_token
RefreshCheck(t) ==
    /\ threads[t].pc = "52"
    /\ Goto(t, IF ~TokenExpired(Globals, now) THEN "94"
               ELSE IF ~workspace_client THEN "30"
               ELSE "61")
    /\ UNCHANGED <<now, environ, workspace_client, postgres_password,
                   last_password_refresh, connection_pool, connection_status,
                   pools, appVars>>
    /\ call' = NoCall

\* line 30: os.environ.pop('DATABRICKS_TOKEN', None)
PopToken(t) ==
    /\ threads[t].pc = "30"
    /\ threads' = [threads EXCEPT
                      ![t].pc = "33",
                      ![t].databricks_token = environ["DATABRICKS_TOKEN"]]
    /\ environ' = [environ EXCEPT !["DATABRICKS_TOKEN"] = None]
    /\ UNCHANGED <<now, workspace_client, postgres_password,
                   last_password_refresh, connection_pool, connection_status,
                   pools, appVars>>
    /\ call' = NoCall

\* lines 33-36: sdk.WorkspaceClient() returns or raises
CreateClient(t) ==
    /\ threads[t].pc = "33"
    /\ \E initOk \in BOOLEAN :
        /\ threads' = [threads EXCEPT ![t].pc = "39", ![t].init_ok = initOk]
        /\ IF initOk
           THEN /\ workspace_client' = TRUE
                /\ connection_status' =
                       Status("databricks_ok", "Databricks client initialized")
           ELSE UNCHANGED <<workspace_client, connection_status>>
    /\ UNCHANGED <<now, environ, postgres_password, last_password_refresh,
                   connection_pool, pools, appVars>>
    /\ call' = NoCall

\* lines 37-46 and 57-58: the finally clause restores a truthy token; after
\* an exception the status is set and get_connection returns None
RestoreToken(t) ==
    /\ threads[t].pc = "39"
    /\ environ' = IF Truthy(threads[t].databricks_token)
                  THEN [environ EXCEPT
                           !["DATABRICKS_TOKEN"] = threads[t].databricks_token]
                  ELSE environ
    /\ IF threads[t].init_ok
       THEN /\ threads' = [threads EXCEPT ![t] = [IdleThread EXCEPT !.pc = "61"]]
            /\ UNCHANGED connection_status
       ELSE /\ Return(t, "None")
            /\ connection_status' =
                   Status("databricks_error", "Databricks initialization failed: ")
    /\ UNCHANGED <<now, workspace_client, postgres_password,
                   last_password_refresh, connection_pool, pools, appVars>>
    /\ call' = NoCall

\* lines 60-72: the token fetch and the writes of postgres_password and
\* last_password_refresh
FetchTokenStep(t) ==
    /\ threads[t].pc = "61"
    /\ \E fetch \in FetchOutcomes :
        IF fetch.ok
        THEN /\ postgres_password' = fetch.token
             /\ last_password_refresh' = now
             /\ connection_status' =
                    Status("token_ok", "OAuth token refreshed successfully")
             /\ Goto(t, "94")
        ELSE /\ connection_status' =
                    Status("token_error", "Failed to refresh OAuth token: ")
             /\ Return(t, "None")
             /\ UNCHANGED <<postgres_password, last_password_refresh>>
    /\ UNCHANGED <<now, environ, workspace_client, connection_pool, pools,
                   appVars>>
    /\ call' = NoCall

\* lines 94-97
CheckPassword(t) ==
    /\ threads[t].pc = "94"
    /\ IF ~Truthy(postgres_password)
       THEN /\ connection_status' =
                   Status("token_error", "No OAuth token available")
            /\ Return(t, "None")
       ELSE /\ Goto(t, "109")
            /\ UNCHANGED connection_status
    /\ UNCHANGED <<now, environ, workspace_client, postgres_password,
                   last_password_refresh, connection_pool, pools, appVars>>
    /\ call' = NoCall

\* lines 99-118: ConnectionPool(...) with the password as it is now, and the
\* write of connection_pool
CreatePoolStep(t) ==
    /\ threads[t].pc = "109"
    /\ \E createOk \in BOOLEAN :
        IF createOk
        THEN /\ Len(pools) < MaxPools
             /\ pools' = Append(pools, [password |-> postgres_password,
                                        open |-> TRUE])
             /\ connection_pool' = Len(pools) + 1
             /\ connection_status' = Status("connected", "Connected to ")
             /\ Goto(t, "120")
        ELSE /\ connection_status' =
                    Status("connection_error", "Failed to create connection pool: ")
             /\ Return(t, "None")
             /\ UNCHANGED <<pools, connection_pool>>
    /\ UNCHANGED <<now, environ, workspace_client, postgres_password,
                   last_password_refresh, appVars>>
    /\ call' = NoCall

\* lines 120 and 132-134: `return connection_pool` reads the global
ReturnPool(t) ==
    /\ threads[t].pc = "120"
    /\ threads' = [threads EXCEPT
                      ![t].pool = connection_pool,
                      ![t].pc = IF connection_pool = NoPool
                                THEN "returned" ELSE "137",
                      ![t].result = IF connection_pool = NoPool
                                    THEN "None" ELSE @]
    /\ UNCHANGED <<now, environ, workspace_client, postgres_password,
                   last_password_refresh, connection_pool, connection_status,
                   pools, appVars>>
    /\ call' = NoCall

\* lines 136-142: pool.connection() gives a connection of an open pool, or
\* raises
PoolConnection(t) ==
    /\ threads[t].pc = "137"
    /\ \E connOk \in BOOLEAN :
        IF connOk /\ pools[threads[t].pool].open
        THEN /\ threads' = [threads EXCEPT ![t].pc = "using",
                                           ![t].conn = threads[t].pool,
                                           ![t].from_open =
                                               pools[threads[t].pool].open,
                                           ![t].result = "connection"]
             /\ UNCHANGED connection_status
        ELSE /\ connection_status' =
                    Status("connection_error", "Failed to get connection: ")
             /\ Return(t, "None")
    /\ UNCHANGED <<now, environ, workspace_client, postgres_password,
                   last_password_refresh, connection_pool, pools, appVars>>
    /\ call' = NoCall

\* the callback is done with what get_connection gave it
FinishCall(t) ==
    /\ threads[t].pc \in {"using", "returned"}
    /\ threads' = [threads EXCEPT ![t] = IdleThread]
    /\ UNCHANGED <<now, environ, workspace_client, postgres_password,
                   last_password_refresh, connection_pool, connection_status,
                   pools, appVars>>
    /\ call' = NoCall

\* the threads that have popped DATABRICKS_TOKEN and not yet restored it
InsideInitialize ==
    {t \in Callers : threads[t].pc \in {"33", "39"}
                      /\ Truthy(threads[t].databricks_token)}

\* line 152 of analyze_adverse_event_with_databricks, run by a third thread
AnalysisReadsToken ==
    /\ call' = [op |-> "analyze_adverse_event_with_databricks",
                databricks_token |-> environ["DATABRICKS_TOKEN"],
                inside_initialize |-> InsideInitialize]
    /\ UNCHANGED <<connVars, appVars>>

ThreadStep(t) ==
    \/ CheckExpiry(t) \/ TestPool(t) \/ ClosePool(t)
    \/ ClearPool(t) \/ TestPoolNone(t) \/ RefreshCheck(t) \/ PopToken(t)
    \/ CreateClient(t) \/ RestoreToken(t) \/ FetchTokenStep(t)
    \/ CheckPassword(t) \/ CreatePoolStep(t) \/ ReturnPool(t)
    \/ PoolConnection(t) \/ FinishCall(t)

\* time passes between two steps
ConcTick == Tick /\ now' <= MaxConcTime

NextConc ==
    ConcTick \/ AnalysisReadsToken \/ \E t \in Callers : ThreadStep(t)

SpecConc == Init /\ [][NextConc]_vars

-----------------------------------------------------------------------------
(* Text: a str is a sequence of characters *)

MaxNameLen == 2

Chars == {" ", "a", "A"}

Texts == UNION {[1..k -> Chars] : k \in 0..MaxNameLen}

\* the value of a text input: None or a str
TextInputs == {NoneV} \cup {Some(t) : t \in Texts}

IsSpace(c) == c = " "

RECURSIVE LStrip(_)
LStrip(t) == IF t # <<>> /\ IsSpace(Head(t)) THEN LStrip(Tail(t)) ELSE t

RECURSIVE RStrip(_)
RStrip(t) ==
    IF t # <<>> /\ IsSpace(t[Len(t)]) THEN RStrip(SubSeq(t, 1, Len(t) - 1)) ELSE t

\* str.strip()
Strip(t) == RStrip(LStrip(t))

\* SQL LOWER()
Lower(t) == [i \in 1..Len(t) |-> IF t[i] = "A" THEN "a" ELSE t[i]]

Min(a, b) == IF a <= b THEN a ELSE b

Take(q, n) == SubSeq(q, 1, Min(n, Len(q)))

Range(q) == {q[i] : i \in 1..Len(q)}

-----------------------------------------------------------------------------
(* The two tables and the two SELECT statements *)

\* synced_order_table_feallstars (order_date and quantity are carried along
\* like order_id and are left out)
OrdersTable ==
    << [retailer_name |-> <<"A">>,      order_id |-> "o1", device_name |-> "d1"],
       [retailer_name |-> <<"a", "a">>, order_id |-> "o2", device_name |-> None],
       [retailer_name |-> <<"a">>,      order_id |-> "o3", device_name |-> "d2"],
       [retailer_name |-> <<"A">>,      order_id |-> "o4", device_name |-> "d1"],
       [retailer_name |-> <<"a", "A">>, order_id |-> "o5", device_name |-> ""],
       [retailer_name |-> <<"a">>,      order_id |-> "o6", device_name |-> None] >>

\* synced_table_adverse_events in the order of ORDER BY event_date DESC,
\* severity_level; event stands for the three columns after device_name
AdverseEventsTable ==
    << [device_name |-> "d1", event |-> "e1"],
       [device_name |-> "d2", event |-> "e2"],
       [device_name |-> "d3", event |-> "e3"],
       [device_name |-> "d1", event |-> "e4"],
       [device_name |-> "d2", event |-> "e5"],
       [device_name |-> "d1", event |-> "e6"] >>

OrdersLimit == 100

DeviceLimit == 1000

\* SELECT ... WHERE LOWER(retailer_name) = LOWER(%s) LIMIT 100
OrdersQuery(param) ==
    Take(SelectSeq(OrdersTable,
                   LAMBDA row : Lower(row.retailer_name) = Lower(param)),
         OrdersLimit)

\* SELECT ... WHERE device_name IN (...) ORDER BY ...
AdverseEventsQuery(params) ==
    SelectSeq(AdverseEventsTable, LAMBDA row : row.device_name \in Range(params))

\* what cur.execute / fetchall can do
QueryOutcomes == {"ok", "psycopg.Error", "Exception"}

-----------------------------------------------------------------------------
(* get_retailer_orders *)

\* lines 206-214: rows to dictionaries
OrderDicts(results) ==
    [i \in 1..Len(results) |->
        [order_id |-> results[i].order_id, device_name |-> results[i].device_name]]

\* the try block of get_retailer_orders: how it ends (return, or the class of
\* the exception raised), the value returned, and the query parameter sent.
\* `with None as conn` raises before line 190 is reached.
GetRetailerOrdersTry(g, retailer_name, o, q) ==
    The({ IF r.ret = NoPool
          THEN [g |-> r, outcome |-> "Exception", value |-> <<>>,
                queried |-> NoneV, query |-> "none"]
          ELSE IF q # "ok"
          THEN [g |-> r, outcome |-> q, value |-> <<>>,
                queried |-> Some(Strip(retailer_name)), query |-> q]
          ELSE [g |-> r, outcome |-> "return",
                value |-> OrderDicts(OrdersQuery(Strip(retailer_name))),
                queried |-> Some(Strip(retailer_name)), query |-> q]
          : r \in {GetConnection(g, o)} })

\* faulty variant: only psycopg.Error is caught
GetRetailerOrders_OnlyPsycopg(g, retailer_name, o, q) ==
    The({ IF t.outcome = "return"
          THEN t
          ELSE IF t.outcome = "psycopg.Error"
          THEN [t EXCEPT !.outcome = "return", !.value = <<>>]
          ELSE t
          : t \in {GetRetailerOrdersTry(g, retailer_name, o, q)} })

\* get_retailer_orders: both except clauses return []
GetRetailerOrders(g, retailer_name, o, q) ==
    The({ IF t.outcome = "return"
          THEN t
          ELSE IF t.outcome = "psycopg.Error"
          THEN [t EXCEPT !.outcome = "return", !.value = <<>>]
          ELSE [t EXCEPT !.outcome = "return", !.value = <<>>]
          : t \in {GetRetailerOrdersTry(g, retailer_name, o, q)} })

-----------------------------------------------------------------------------
(* search_retailer_orders *)

\* `not retailer_name or not retailer_name.strip()`
BlankInput(v) == v = NoneV \/ v[1] = <<>> \/ Strip(v[1]) = <<>>

\* faulty variant: selected-retailer-store gets the name as typed
SearchRetailerOrdersFn_Unstripped(g, retailer_name, o, q) ==
    IF BlankInput(retailer_name)
    THEN [g |-> g, raised |-> FALSE,
          orders |-> <<>>, selected |-> NoneV,
          message |-> "Please enter a retailer name.",
          gro |-> [called |-> FALSE]]
    ELSE The({
           LET gro == [called |-> TRUE, arg |-> Strip(retailer_name[1]),
                       outcome |-> r.outcome, value |-> r.value,
                       queried |-> r.queried, query |-> r.query]
           IN  IF r.outcome # "return"
               THEN [g |-> r.g, raised |-> TRUE,
                     orders |-> <<>>, selected |-> NoneV, message |-> None,
                     gro |-> gro]
               ELSE IF r.value = <<>>
               THEN [g |-> r.g, raised |-> FALSE,
                     orders |-> <<>>, selected |-> retailer_name,
                     message |-> "No orders found for retailer: ",
                     gro |-> gro]
               ELSE [g |-> r.g, raised |-> FALSE,
                     orders |-> r.value, selected |-> retailer_name,
                     message |-> "Found orders for ",
                     gro |-> gro]
           : r \in {GetRetailerOrders(g, Strip(retailer_name[1]), o, q)} })

\* the callback: raised, or the three outputs; gro records the call of
\* get_retailer_orders
SearchRetailerOrdersFn(g, retailer_name, o, q) ==
    IF BlankInput(retailer_name)
    THEN [g |-> g, raised |-> FALSE,
          orders |-> <<>>, selected |-> NoneV,
          message |-> "Please enter a retailer name.",
          gro |-> [called |-> FALSE]]
    ELSE The({
           LET gro == [called |-> TRUE, arg |-> Strip(retailer_name[1]),
                       outcome |-> r.outcome, value |-> r.value,
                       queried |-> r.queried, query |-> r.query]
           IN  IF r.outcome # "return"
               THEN [g |-> r.g, raised |-> TRUE,
                     orders |-> <<>>, selected |-> NoneV, message |-> None,
                     gro |-> gro]
               ELSE IF r.value = <<>>
               THEN [g |-> r.g, raised |-> FALSE,
                     orders |-> <<>>, selected |-> Some(Strip(retailer_name[1])),
                     message |-> "No orders found for retailer: ",
                     gro |-> gro]
               ELSE [g |-> r.g, raised |-> FALSE,
                     orders |-> r.value, selected |-> Some(Strip(retailer_name[1])),
                     message |-> "Found orders for ",
                     gro |-> gro]
           : r \in {GetRetailerOrders(g, Strip(retailer_name[1]), o, q)} })

-----------------------------------------------------------------------------
(* get_unique_device_names, get_device_adverse_events, load_adverse_events *)

\* the sequences that list(set(...)) can return for a set
Orderings(S) ==
    {q \in [1..Cardinality(S) -> S] : Range(q) = S}

\* faulty variant: the comprehension without its `if order['device_name']`
TruthyDeviceNames_Unfiltered(orders) ==
    [i \in 1..Len(orders) |-> orders[i].device_name]

\* [order['device_name'] for order in orders if order['device_name']]
TruthyDeviceNames(orders) ==
    LET kept == SelectSeq(orders, LAMBDA order : Truthy(order.device_name))
    IN  [i \in 1..Len(kept) |-> kept[i].device_name]

\* get_unique_device_names: the results possible for list(set(...))
GetUniqueDeviceNames(orders) ==
    Orderings(Range(TruthyDeviceNames(orders)))

\* faulty variant: the list of a device is replaced, not appended to
AddRow_Overwrite(adverse_events, row) ==
    [d \in DOMAIN adverse_events \cup {row.device_name} |->
        IF d = row.device_name THEN <<row.event>> ELSE adverse_events[d]]

\* one step of the loop of lines 253-263
AddRow(adverse_events, row) ==
    IF row.device_name \in DOMAIN adverse_events
    THEN [adverse_events EXCEPT ![row.device_name] = Append(@, row.event)]
    ELSE [d \in DOMAIN adverse_events \cup {row.device_name} |->
             IF d = row.device_name THEN <<row.event>> ELSE adverse_events[d]]

\* lines 250-263: the rows grouped by device name; <<>> is the empty dict
RECURSIVE GroupFrom(_, _)
GroupFrom(adverse_events, results) ==
    IF results = <<>>
    THEN adverse_events
    ELSE The({ GroupFrom(next, Tail(results))
               : next \in {AddRow(adverse_events, Head(results))} })

GroupByDevice(results) == GroupFrom(<<>>, results)

\* the try block of get_device_adverse_events
GetDeviceAdverseEventsTry(g, device_names, o, q) ==
    The({
      LET limited_device_names == Take(device_names, DeviceLimit)
      IN  IF r.ret = NoPool
          THEN [g |-> r, outcome |-> "Exception", value |-> <<>>, queried |-> NoneV,
                query |-> "none", conn |-> ConnTrace(g, r)]
          ELSE IF q # "ok"
          THEN [g |-> r, outcome |-> q, value |-> <<>>,
                queried |-> Some(limited_device_names), query |-> q,
                conn |-> ConnTrace(g, r)]
          ELSE [g |-> r, outcome |-> "return",
                value |-> GroupByDevice(AdverseEventsQuery(limited_device_names)),
                queried |-> Some(limited_device_names), query |-> q,
                conn |-> ConnTrace(g, r)]
      : r \in {GetConnection(g, o)} })

\* get_device_adverse_events
GetDeviceAdverseEvents(g, device_names, o, q) ==
    IF device_names = <<>>
    THEN [g |-> g, outcome |-> "return", value |-> <<>>, queried |-> NoneV,
          query |-> "none", conn |-> NoConn]
    ELSE The({ IF t.outcome = "return"
               THEN t
               ELSE IF t.outcome = "psycopg.Error"
               THEN [t EXCEPT !.outcome = "return", !.value = <<>>]
               ELSE [t EXCEPT !.outcome = "return", !.value = <<>>]
               : t \in {GetDeviceAdverseEventsTry(g, device_names, o, q)} })

\* `not orders_data`
EmptyOrders(orders_data) == orders_data = NoneV \/ orders_data[1] = <<>>

\* load_adverse_events, device_names being what get_unique_device_names
\* returned
LoadAdverseEventsFn(g, orders_data, device_names, o, q) ==
    IF EmptyOrders(orders_data)
    THEN [g |-> g, raised |-> FALSE, value |-> <<>>,
          gdae |-> [called |-> FALSE], conn |-> NoConn]
    ELSE The({ [g |-> r.g, raised |-> r.outcome # "return", value |-> r.value,
                gdae |-> [called |-> TRUE, arg |-> device_names,
                          outcome |-> r.outcome, value |-> r.value,
                          queried |-> r.queried, query |-> r.query],
                conn |-> r.conn]
               : r \in {GetDeviceAdverseEvents(g, device_names, o, q)} })

-----------------------------------------------------------------------------
(* The callbacks as actions *)

\* the clock does not advance inside the callbacks of SpecApp
AppDelays == {0}

\* search-button click or Enter in retailer-name-input
SearchRetailerOrders ==
    \E g \in {Globals} :
    \E retailer_name \in TextInputs :
    \E o \in (IF BlankInput(retailer_name) THEN {DefaultOracle}
              ELSE OraclesFor(g, AppDelays)) :
    \E q \in (IF BlankInput(retailer_name) \/ GetConnection(g, o).ret = NoPool
              THEN {"ok"} ELSE QueryOutcomes) :
    \E r \in {SearchRetailerOrdersFn(g, retailer_name, o, q)} :
            /\ SetGlobals(r.g)
            /\ IF r.raised
               THEN UNCHANGED searchVars
               ELSE /\ orders_store' = Some(r.orders)
                    /\ selected_retailer_store' = r.selected
                    /\ search_message' = r.message
                    /\ pending' = pending \cup {"load_adverse_events"}
                    /\ UNCHANGED <<adverse_events_store, adverse_events_container>>
            /\ call' = [op |-> "search_retailer_orders",
                        input |-> retailer_name,
                        raised |-> r.raised,
                        gro |-> r.gro,
                        conn |-> IF r.gro.called
                                 THEN ConnTrace(g, r.g) ELSE NoConn]
            /\ UNCHANGED analysisVars

\* orders-store was updated
LoadAdverseEvents ==
    /\ "load_adverse_events" \in pending
    /\ \E g \in {Globals} :
       \E device_names \in
            (IF EmptyOrders(orders_store) THEN {<<>>}
             ELSE GetUniqueDeviceNames(orders_store[1])) :
       \E o \in (IF device_names = <<>> THEN {DefaultOracle}
                 ELSE OraclesFor(g, AppDelays)) :
       \E q \in (IF device_names = <<>> \/ GetConnection(g, o).ret = NoPool
                 THEN {"ok"} ELSE QueryOutcomes) :
       \E r \in {LoadAdverseEventsFn(g, orders_store, device_names, o, q)} :
            /\ SetGlobals(r.g)
            /\ adverse_events_store' =
                   IF r.raised THEN adverse_events_store ELSE Some(r.value)
            /\ pending' = pending \ {"load_adverse_events"}
            /\ call' = [op |-> "load_adverse_events",
                        input |-> orders_store,
                        raised |-> r.raised,
                        gdae |-> r.gdae,
                        conn |-> r.conn]
            /\ UNCHANGED <<orders_store, selected_retailer_store, search_message,
                           adverse_events_container>>
            /\ UNCHANGED analysisVars

NextApp == SearchRetailerOrders \/ LoadAdverseEvents

SpecApp == Init /\ [][NextApp]_vars

-----------------------------------------------------------------------------
(* The grouping loop of get_device_adverse_events on arbitrary query results *)

MaxRows == 3

RowDevices == {"d1", "d2", "d3"}
RowEvents == {"e1", "e2"}

Rows == [device_name : RowDevices, event : RowEvents]

RowSeqs == UNION {[1..k -> Rows] : k \in 0..MaxRows}

InitGroup ==
    /\ InitGlobals
    /\ InitLayout
    /\ \E results \in RowSeqs : call = [op |-> "fetchall", results |-> results]

\* lines 250-266 applied to the rows that fetchall returned
GroupResults ==
    /\ call.op = "fetchall"
    /\ call' = [op |-> "grouped", results |-> call.results,
                adverse_events |-> GroupByDevice(call.results)]
    /\ UNCHANGED <<connVars, searchVars, analysisVars>>

NextGroup == GroupResults

SpecGroup == InitGroup /\ [][NextGroup]_vars

-----------------------------------------------------------------------------
(* display_adverse_events and display_adverse_event_details *)

MaxEvents == 2

EventDevices == {"d1", "d2"}

\* the rows a query of get_device_adverse_events can return
EventRowSeqs ==
    UNION {[1..k -> [device_name : EventDevices, event : RowEvents]]
              : k \in 0..MaxEvents}

\* `not adverse_events_data`
EmptyEvents(adverse_events_data) ==
    adverse_events_data = NoneV \/ adverse_events_data[1] = <<>>

\* line 558: the label of an option, made of the fields of the event
OptionLabel(event) == [text |-> "severity_color event_date - description...",
                       of |-> event]

\* faulty variant: the options are numbered from 1
DropdownOptions_FromOne(events) ==
    [i \in 1..Len(events) |-> [label |-> OptionLabel(events[i]), value |-> i]]

\* lines 550-562: enumerate(events) numbers the options from 0
DropdownOptions(events) ==
    [i \in 1..Len(events) |-> [label |-> OptionLabel(events[i]), value |-> i - 1]]

\* display_adverse_events: a message, or one section with a dropdown for each
\* device whose list of events is not empty
DisplayAdverseEventsFn(adverse_events_data) ==
    IF EmptyEvents(adverse_events_data)
    THEN [kind |-> "message",
          text |-> "No adverse events found for the ordered devices."]
    ELSE [kind |-> "sections",
          dropdowns |-> [device_name \in {d \in DOMAIN adverse_events_data[1] :
                                             adverse_events_data[1][d] # <<>>}
                            |-> DropdownOptions(
                                    adverse_events_data[1][device_name])]]

\* adverse_events_data.get(device_name, [])
EventsGet(adverse_events_data, device_name) ==
    IF device_name \in DOMAIN adverse_events_data[1]
    THEN adverse_events_data[1][device_name]
    ELSE <<>>

\* display_adverse_event_details; events[i] of Python is events[i + 1] here
DisplayAdverseEventDetailsFn(selected_event_index, adverse_events_data, dropdown_id) ==
    IF selected_event_index = NoneV \/ EmptyEvents(adverse_events_data)
    THEN EmptyText
    ELSE The({ IF selected_event_index[1] >= Len(events)
               THEN EmptyText
               ELSE [kind |-> "details",
                     event |-> events[selected_event_index[1] + 1]]
               : events \in {EventsGet(adverse_events_data,
                                       dropdown_id.device)} })

\* what load_adverse_events can return: {} or the rows of the query of
\* get_device_adverse_events grouped by device (lines 476-483, 250-263)
LoadedValues == {GroupByDevice(results) : results \in EventRowSeqs}

\* load_adverse_events returned and adverse-events-store was written
AdverseEventsLoaded ==
    /\ \E value \in LoadedValues :
        /\ adverse_events_store' = Some(value)
        /\ call' = [op |-> "load_adverse_events", value |-> value]
    /\ pending' = pending \cup {"display_adverse_events"}
    /\ UNCHANGED <<connVars, analysisVars, orders_store,
                   selected_retailer_store, search_message,
                   adverse_events_container>>

\* adverse-events-store was updated
DisplayAdverseEvents ==
    /\ "display_adverse_events" \in pending
    /\ adverse_events_container' = DisplayAdverseEventsFn(adverse_events_store)
    /\ pending' = pending \ {"display_adverse_events"}
    /\ call' = [op |-> "display_adverse_events",
                adverse_events_data |-> adverse_events_store]
    /\ UNCHANGED <<connVars, analysisVars, orders_store,
                   selected_retailer_store, search_message,
                   adverse_events_store>>

\* the user picks an option of a rendered dropdown, or clears the dropdown
SelectAdverseEvent ==
    /\ adverse_events_container.kind = "sections"
    /\ \E device_name \in DOMAIN adverse_events_container.dropdowns :
       \E options \in {adverse_events_container.dropdowns[device_name]} :
       \E selected_event_index \in
              {NoneV} \cup {Some(options[i].value) : i \in 1..Len(options)} :
          call' = [op |-> "display_adverse_event_details",
                   selected_event_index |-> selected_event_index,
                   adverse_events_data |-> adverse_events_store,
                   dropdown_id |-> [type |-> "adverse-event-dropdown",
                                    device |-> device_name],
                   options |-> options,
                   children |-> DisplayAdverseEventDetailsFn(
                                    selected_event_index, adverse_events_store,
                                    [type |-> "adverse-event-dropdown",
                                     device |-> device_name])]
    /\ UNCHANGED <<connVars, analysisVars, searchVars>>

NextEvents == AdverseEventsLoaded \/ DisplayAdverseEvents \/ SelectAdverseEvent

SpecEvents == Init /\ [][NextEvents]_vars

-----------------------------------------------------------------------------
(* JSON values and json.loads *)

PyStr(s) == [type |-> "str", str |-> s]
PyInt(n) == [type |-> "int", int |-> n]
PyBool(b) == [type |-> "bool", bool |-> b]
PyNone == [type |-> "NoneType"]
PyList(q) == [type |-> "list", elems |-> q]
\* a dict with str keys: the sequence of its (key, value) pairs
PyDict(items) == [type |-> "dict", items |-> items]

\* the reply texts of the model, each with the value json.loads gives for it
JsonDocuments ==
    { <<"{\"root_cause\": \"x\", \"actions\": [\"y\"]}",
        PyDict(<< <<"root_cause", PyStr("x")>>,
                  <<"actions", PyList(<<PyStr("y")>>)>> >>)>>,
      <<"{\"analysis\": \"x\"}", PyDict(<< <<"analysis", PyStr("x")>> >>)>>,
      <<"{}", PyDict(<<>>)>>,
      <<"[\"x\"]", PyList(<<PyStr("x")>>)>>,
      <<"\"analysis\"", PyStr("analysis")>>,
      <<"7", PyInt(7)>>,
      <<"true", PyBool(TRUE)>>,
      <<"null", PyNone>> }

JsonTexts == {d[1] : d \in JsonDocuments}

PlainTexts == {"Root cause: x", ""}

\* json.loads(content): the value, or the exception raised (TypeError for a
\* content that is None, JSONDecodeError for a str that is no JSON document)
JsonLoads(content) ==
    IF content = None
    THEN [raised |-> "TypeError"]
    ELSE IF content \in JsonTexts
    THEN [raised |-> "no", value |-> (CHOOSE d \in JsonDocuments : d[1] = content)[2]]
    ELSE [raised |-> "JSONDecodeError"]

-----------------------------------------------------------------------------
(* analyze_adverse_event_with_databricks and analyze_adverse_event *)

\* what client.chat.completions.create can do: raise, or return a response
\* with no choice, or with a first choice whose message.content is None or a str
Replies ==
    {[kind |-> "raise"], [kind |-> "no_choices"]} \cup
    {[kind |-> "content", content |-> c] : c \in JsonTexts \cup PlainTexts \cup {None}}

\* lines 157-181: the endpoint call and the parsing of its reply; the dict
\* returned or the exception raised, and the number of endpoint calls made
CallEndpoint(event_description, reply) ==
    IF reply.kind = "raise"
    THEN [outcome |-> "Exception", calls |-> 1]
    ELSE IF reply.kind = "no_choices"
    THEN [outcome |-> "IndexError", calls |-> 1]
    ELSE LET parsed_content == JsonLoads(reply.content)
         IN  IF parsed_content.raised = "no"
             THEN [outcome |-> "return", calls |-> 1,
                   value |-> [success |-> TRUE, data |-> parsed_content.value]]
             ELSE IF parsed_content.raised = "JSONDecodeError"
             THEN [outcome |-> "return", calls |-> 1,
                   value |-> [success |-> TRUE,
                              data |-> PyDict(<< <<"analysis",
                                                  PyStr(reply.content)>> >>)]]
             ELSE [outcome |-> parsed_content.raised, calls |-> 1]

\* faulty variant: the endpoint is called without looking at DATABRICKS_TOKEN
AnalyzeTry_NoTokenCheck(env, event_description, reply) ==
    CallEndpoint(event_description, reply)

\* the try block of analyze_adverse_event_with_databricks
AnalyzeTry(env, event_description, reply) ==
    LET databricks_token == env["DATABRICKS_TOKEN"]
    IN  IF ~Truthy(databricks_token)
        THEN [outcome |-> "return", calls |-> 0,
              value |-> [error |-> "DATABRICKS_TOKEN environment variable not set"]]
        ELSE CallEndpoint(event_description, reply)

\* analyze_adverse_event_with_databricks: `except Exception` turns every
\* exception into an error dict
AnalyzeAdverseEventWithDatabricks(env, event_description, reply) ==
    LET t == AnalyzeTry(env, event_description, reply)
    IN  IF t.outcome = "return"
        THEN [raised |-> FALSE, calls |-> t.calls, value |-> t.value]
        ELSE [raised |-> FALSE, calls |-> t.calls,
              value |-> [error |-> "Failed to analyze adverse event: "]]

\* faulty variant: the dict of a failed analysis is written to the store
AnalyzeAdverseEventFn_StoreError(env, event_description, reply) ==
    IF BlankInput(event_description)
    THEN [raised |-> FALSE, store |-> NoneV,
          loading |-> "Please enter an adverse event description.",
          analysis |-> [called |-> FALSE, calls |-> 0]]
    ELSE The({ [raised |-> FALSE, store |-> Some(result.value),
                loading |-> IF "error" \in DOMAIN result.value
                            THEN "Error: "
                            ELSE "Analysis completed successfully!",
                analysis |-> [called |-> TRUE,
                              arg |-> Strip(event_description[1]),
                              raised |-> FALSE, calls |-> result.calls,
                              result |-> Some(result.value)]]
               : result \in {AnalyzeAdverseEventWithDatabricks(
                                 env, Strip(event_description[1]), reply)} })

\* the callback analyze_adverse_event: its two outputs; analysis records the
\* call of analyze_adverse_event_with_databricks
AnalyzeAdverseEventFn(env, event_description, reply) ==
    IF BlankInput(event_description)
    THEN [raised |-> FALSE, store |-> NoneV,
          loading |-> "Please enter an adverse event description.",
          analysis |-> [called |-> FALSE, calls |-> 0]]
    ELSE LET result == AnalyzeAdverseEventWithDatabricks(
                           env, Strip(event_description[1]), reply)
             analysis == [called |-> TRUE, arg |-> Strip(event_description[1]),
                          raised |-> result.raised, calls |-> result.calls,
                          result |-> IF result.raised THEN NoneV
                                     ELSE Some(result.value)]
         IN  IF result.raised
             THEN [raised |-> TRUE, store |-> NoneV, loading |-> None,
                   analysis |-> analysis]
             ELSE IF "error" \in DOMAIN result.value
             THEN [raised |-> FALSE, store |-> NoneV, loading |-> "Error: ",
                   analysis |-> analysis]
             ELSE [raised |-> FALSE, store |-> Some(result.value),
                   loading |-> "Analysis completed successfully!",
                   analysis |-> analysis]

\* analyze-event-button click
AnalyzeAdverseEvent ==
    \E event_description \in TextInputs :
    \E reply \in (IF BlankInput(event_description)
                     \/ ~Truthy(environ["DATABRICKS_TOKEN"])
                  THEN {[kind |-> "raise"]} ELSE Replies) :
    \E r \in {AnalyzeAdverseEventFn(environ, event_description, reply)} :
        /\ IF r.raised
           THEN UNCHANGED <<analysis_results_store, analysis_loading, pending>>
           ELSE /\ analysis_results_store' = r.store
                /\ analysis_loading' = r.loading
                /\ pending' = pending \cup {"display_analysis_results"}
        /\ call' = [op |-> "analyze_adverse_event",
                    input |-> event_description,
                    token |-> environ["DATABRICKS_TOKEN"],
                    reply |-> reply,
                    raised |-> r.raised,
                    analysis |-> r.analysis]
        /\ UNCHANGED <<connVars, orders_store, selected_retailer_store,
                       search_message, adverse_events_store,
                       adverse_events_container, analysis_results_container>>

-----------------------------------------------------------------------------
(* display_analysis_results *)

\* `sub in s` for the str values of the model, none of which has 'analysis'
\* as a proper substring
StrContains(s, sub) == s = sub

\* `item in data` for a str item (line 686): the bool, or the TypeError of a
\* value that is no container
PyContains(data, item) ==
    IF data.type = "dict"
    THEN [raised |-> "no",
          value |-> \E i \in 1..Len(data.items) : data.items[i][1] = item]
    ELSE IF data.type = "list"
    THEN [raised |-> "no",
          value |-> \E i \in 1..Len(data.elems) : data.elems[i] = PyStr(item)]
    ELSE IF data.type = "str"
    THEN [raised |-> "no", value |-> StrContains(data.str, item)]
    ELSE [raised |-> "TypeError"]

\* len(data) of a dict, a list or a str
PyLen(data) ==
    IF data.type = "dict" THEN Len(data.items)
    ELSE IF data.type = "list" THEN Len(data.elems)
    ELSE Len(data.str)

\* data['analysis'] (line 690)
PyGetItem(data, key) ==
    IF data.type = "dict"
    THEN [raised |-> "no",
          value |-> data.items[CHOOSE i \in 1..Len(data.items) :
                                   data.items[i][1] = key][2]]
    ELSE [raised |-> "TypeError"]

\* key.replace('_', ' ').title() followed by ": " for the keys of the model
KeyLabel(key) ==
    IF key = "root_cause" THEN "Root Cause: "
    ELSE IF key = "actions" THEN "Actions: "
    ELSE IF key = "analysis" THEN "Analysis: "
    ELSE "?"

\* str(value) of a value that is no dict and no list
PyStrOf(value) ==
    IF value.type = "str" THEN value.str
    ELSE IF value.type = "int" THEN (IF value.int = 7 THEN "7" ELSE "?")
    ELSE IF value.type = "bool" THEN (IF value.bool THEN "True" ELSE "False")
    ELSE "None"

\* json.dumps(value, indent=2) for the dict and list values of the model
JsonDumps(value) ==
    IF value = PyList(<<PyStr("y")>>) THEN "[\n  \"y\"\n]"
    ELSE IF value = PyList(<<>>) THEN "[]"
    ELSE IF value = PyDict(<<>>) THEN "{}"
    ELSE "?"

\* lines 715-736: one component for a key-value pair of data
RenderEntry(key, value) ==
    IF value.type \in {"dict", "list"}
    THEN [label |-> KeyLabel(key), tag |-> "Pre", text |-> JsonDumps(value)]
    ELSE [label |-> KeyLabel(key), tag |-> "Span", text |-> PyStrOf(value)]

\* lines 710-744: data.items() exists for a dict only
RenderEntries(data) ==
    IF data.type = "dict"
    THEN [raised |-> "no",
          children |-> [kind |-> "panel", layout |-> "entries",
                        entries |-> [i \in 1..Len(data.items) |->
                                        RenderEntry(data.items[i][1],
                                                    data.items[i][2])]]]
    ELSE [raised |-> "AttributeError"]

\* lines 686-707: the text layout
RenderText(data) ==
    The({ IF v.raised = "no"
          THEN [raised |-> "no",
                children |-> [kind |-> "panel", layout |-> "text",
                              pre |-> v.value]]
          ELSE [raised |-> v.raised]
          : v \in {PyGetItem(data, "analysis")} })

\* display_analysis_results: the children returned or the exception raised.
\* analysis_data is None or a dict; a dict written by analyze_adverse_event
\* has the keys 'success' and 'data'.
DisplayAnalysisResultsFn(analysis_data) ==
    IF analysis_data = NoneV
    THEN [raised |-> "no", children |-> EmptyText]
    ELSE IF ~("success" \in DOMAIN analysis_data[1] /\ analysis_data[1].success)
    THEN [raised |-> "no", children |-> EmptyText]
    ELSE The({ The({ IF c.raised # "no"
                     THEN [raised |-> c.raised]
                     ELSE IF c.value /\ PyLen(data) = 1
                     THEN RenderText(data)
                     ELSE RenderEntries(data)
                     : c \in {PyContains(data, "analysis")} })
               : data \in {IF "data" \in DOMAIN analysis_data[1]
                           THEN analysis_data[1].data
                           ELSE PyDict(<<>>)} })

\* analysis-results-store was updated; an exception leaves the output as it is
DisplayAnalysisResults ==
    /\ "display_analysis_results" \in pending
    /\ \E r \in {DisplayAnalysisResultsFn(analysis_results_store)} :
        /\ analysis_results_container' =
               IF r.raised = "no" THEN r.children ELSE analysis_results_container
        /\ call' = [op |-> "display_analysis_results",
                    analysis_data |-> analysis_results_store,
                    raised |-> r.raised,
                    before |-> analysis_results_container,
                    request |-> call]
    /\ pending' = pending \ {"display_analysis_results"}
    /\ UNCHANGED <<connVars, orders_store, selected_retailer_store,
                   search_message, adverse_events_store,
                   adverse_events_container, analysis_results_store,
                   analysis_loading>>

NextAnalysis == AnalyzeAdverseEvent \/ DisplayAnalysisResults

\* The callbacks of the analysis section read DATABRICKS_TOKEN and nothing
\* else of the globals: they start after an import that found every PG*
\* variable and built the Databricks client.
InitAnalysis ==
    /\ Init
    /\ missing_vars(environ) = <<>>
    /\ workspace_client

SpecAnalysis == InitAnalysis /\ [][NextAnalysis]_vars

-----------------------------------------------------------------------------
(* Properties of the token refresh and the connection pool *)

\* the last handler called get_connection, and refresh_oauth_token within it
ConnCalled == call.conn.called
RefreshCalled == ConnCalled /\ call.conn.refresh.called

\* the expiry condition as refresh_oauth_token saw it on entry
RefreshDue ==
    \/ call.conn.refresh.before.postgres_password = None
    \/ call.conn.refresh.before.now
         - call.conn.refresh.before.last_password_refresh > TokenLifetime

\* the parts of C1 that do not concern when a fetch happens
RefreshEffects ==
    /\ ~RefreshDue =>
          /\ call.conn.refresh.ret = TRUE
          /\ call.conn.refresh.after.postgres_password
               = call.conn.refresh.before.postgres_password
          /\ call.conn.refresh.after.last_password_refresh
               = call.conn.refresh.before.last_password_refresh
          /\ call.conn.refresh.after.connection_status
               = call.conn.refresh.before.connection_status
    /\ (call.conn.refresh.fetched /\ call.conn.refresh.ret) =>
          /\ call.conn.refresh.after.last_password_refresh
               = call.conn.refresh.after.now
          /\ call.conn.refresh.after.last_password_refresh
               >= call.conn.refresh.before.now
          /\ call.conn.refresh.after.connection_status.status = "token_ok"

\* C1 as stated: refresh_oauth_token fetches a token if and only if no token
\* is held or the held one is older than 900 seconds; a fresh token leaves the
\* globals alone and returns True; a successful fetch stamps the time and sets
\* the status 'token_ok'.
C1_Original ==
    RefreshCalled =>
        /\ call.conn.refresh.fetched <=> RefreshDue
        /\ RefreshEffects

\* C1 amended: refresh_oauth_token attempts a fetch if and only if no token is
\* held or the held one is older than 900 seconds AND a workspace client is
\* available (one exists already or initialize_databricks_client succeeds in
\* this call); when the client cannot be initialised it returns False without
\* fetching and leaves the token and its time stamp alone.  The rest of C1
\* holds as stated.
C1_Refresh ==
    RefreshCalled =>
        /\ call.conn.refresh.fetched
             <=> (RefreshDue /\ call.conn.refresh.after.workspace_client)
        /\ (RefreshDue /\ ~call.conn.refresh.after.workspace_client) =>
              /\ call.conn.refresh.ret = FALSE
              /\ call.conn.refresh.after.postgres_password
                   = call.conn.refresh.before.postgres_password
              /\ call.conn.refresh.after.last_password_refresh
                   = call.conn.refresh.before.last_password_refresh
        /\ RefreshEffects

\* a held token older than 900 seconds was replaced by a successful fetch
C1_Witness ==
    /\ RefreshCalled
    /\ call.conn.refresh.before.postgres_password \in Tokens
    /\ call.conn.refresh.before.now
         - call.conn.refresh.before.last_password_refresh > TokenLifetime
    /\ call.conn.refresh.fetched
    /\ call.conn.refresh.ret
    /\ call.conn.refresh.after.postgres_password
         # call.conn.refresh.before.postgres_password

\* C2: a connection that get_connection returns comes from the pool that
\* connection_pool references, which is open and was built with the current
\* postgres_password, a token refreshed at most 900 seconds before the expiry
\* check of the call; every other pool ever built (in particular the one the
\* call found with an expired token) is closed; and no pool is built in a call
\* whose token refresh failed.
C2_FreshPool ==
    /\ \A i \in 1..Len(pools) :
          pools[i].open => i = connection_pool
    /\ \A i \in 1..Len(pools) :
          pools[i].password # postgres_password => ~pools[i].open
    /\ ConnCalled =>
          /\ call.conn.result # NoPool =>
                /\ call.conn.result = connection_pool
                /\ pools[call.conn.result].open
                /\ pools[call.conn.result].password = postgres_password
                /\ Truthy(postgres_password)
                /\ call.conn.t_check - last_password_refresh <= TokenLifetime
          /\ (call.conn.expired /\ call.conn.pool_before # NoPool) =>
                /\ ~pools[call.conn.pool_before].open
                /\ call.conn.result # call.conn.pool_before
                /\ connection_pool # call.conn.pool_before
          /\ (call.conn.refresh.called /\ ~call.conn.refresh.ret) =>
                /\ call.conn.nCreate = 0
                /\ call.conn.result = NoPool
                /\ connection_pool = NoPool

\* a call found a pool whose token had expired, closed it, fetched another
\* token and returned a connection of a new pool
C2_Witness ==
    /\ ConnCalled
    /\ call.conn.pool_before # NoPool
    /\ call.conn.expired
    /\ call.conn.result # NoPool
    /\ postgres_password # call.conn.password_before
    /\ pools[call.conn.pool_before].password = call.conn.password_before

\* C3: a pool is created only when connection_pool is None on entry to
\* get_connection_pool; a call that finds a pool and an unexpired token
\* initialises no client, fetches no token, creates and closes no pool,
\* leaves connection_pool and the token alone, and any connection it returns
\* is one of that pool.
C3_LazyReuse ==
    ConnCalled =>
        /\ call.conn.nCreate > 0 =>
              (call.conn.pool_before = NoPool \/ call.conn.expired)
        /\ (call.conn.pool_before # NoPool /\ ~call.conn.expired) =>
              /\ call.conn.nInit = 0
              /\ call.conn.nFetch = 0
              /\ call.conn.nCreate = 0
              /\ call.conn.nClose = 0
              /\ ~call.conn.refresh.called
              /\ connection_pool = call.conn.pool_before
              /\ pools[connection_pool].open
              /\ postgres_password = call.conn.password_before
              /\ last_password_refresh = call.conn.last_before
              /\ call.conn.result \in {NoPool, call.conn.pool_before}

\* a call found a pool with a fresh token and returned a connection of it
C3_Witness ==
    /\ ConnCalled
    /\ call.conn.pool_before # NoPool
    /\ ~call.conn.expired
    /\ call.conn.result = call.conn.pool_before

\* the status that names the step at which the last get_connection failed
FailedStep ==
    IF call.conn.env_missing
    THEN "env_error"
    ELSE IF call.conn.refresh.called /\ call.conn.nInit > 0 /\ ~workspace_client
    THEN "databricks_error"
    ELSE IF call.conn.refresh.called /\ ~call.conn.refresh.ret
    THEN "token_error"
    ELSE IF call.conn.refresh.called /\ ~Truthy(postgres_password)
    THEN "token_error"
    ELSE "connection_error"

\* C4: whenever get_connection returns None, connection_status.status is one
\* of env_error, databricks_error, token_error, connection_error, it names
\* the step that failed, and the message is not empty.
C4_FailureStatus ==
    (ConnCalled /\ call.conn.result = NoPool) =>
        /\ connection_status.status \in
              {"env_error", "databricks_error", "token_error", "connection_error"}
        /\ connection_status.status = FailedStep
        /\ connection_status.message # ""

\* pool.connection() failed on a pool that the call had just built
C4_Witness ==
    /\ ConnCalled
    /\ call.conn.result = NoPool
    /\ call.conn.nCreate = 1
    /\ connection_pool # NoPool
    /\ connection_status.status = "connection_error"

\* C6: one get_connection call attempts at most one client initialisation,
\* one token fetch and one pool creation, and returns None at the first step
\* that fails; with a PG* variable missing it returns None without any client
\* initialisation, token fetch or pool creation.
C6_NoRetry ==
    ConnCalled =>
        /\ call.conn.nInit <= 1
        /\ call.conn.nFetch <= 1
        /\ call.conn.nCreate <= 1
        /\ (call.conn.nInit = 1 /\ ~workspace_client) =>
              (call.conn.nFetch = 0 /\ call.conn.nCreate = 0
               /\ call.conn.result = NoPool)
        /\ (call.conn.refresh.called /\ call.conn.refresh.fetched
            /\ ~call.conn.refresh.ret) =>
              (call.conn.nCreate = 0 /\ call.conn.result = NoPool)
        /\ (call.conn.nCreate = 1 /\ connection_pool = NoPool) =>
              call.conn.result = NoPool
        /\ call.conn.env_missing =>
              /\ call.conn.nInit = 0
              /\ call.conn.nFetch = 0
              /\ call.conn.nCreate = 0
              /\ call.conn.result = NoPool

\* a call initialised the client, fetched a token, and failed to build the pool
C6_Witness ==
    /\ ConnCalled
    /\ call.conn.nInit = 1
    /\ call.conn.nFetch = 1
    /\ call.conn.nCreate = 1
    /\ connection_pool = NoPool
    /\ call.conn.result = NoPool

-----------------------------------------------------------------------------
(* Properties of the query functions and the search callbacks *)

Searched == call.op = "search_retailer_orders"
Loaded == call.op = "load_adverse_events"

\* the query function of the last callback got no connection, or its query failed
QueryFailed(f) ==
    (call.conn.called /\ call.conn.result = NoPool)
    \/ f.query \in {"psycopg.Error", "Exception"}

\* C5: get_retailer_orders and get_device_adverse_events always return and
\* never raise; without a connection or with a failing query the first
\* returns [] and the second {}, and search_retailer_orders then stores [] and
\* reports 'No orders found'.
C5_NeverRaise ==
    /\ Searched =>
          /\ ~call.raised
          /\ call.gro.called =>
                /\ call.gro.outcome = "return"
                /\ QueryFailed(call.gro) =>
                      /\ call.gro.value = <<>>
                      /\ orders_store = Some(<<>>)
                      /\ search_message = "No orders found for retailer: "
    /\ Loaded =>
          /\ ~call.raised
          /\ call.gdae.called =>
                /\ call.gdae.outcome = "return"
                /\ QueryFailed(call.gdae) =>
                      /\ call.gdae.value = <<>>
                      /\ adverse_events_store = Some(<<>>)

\* a search whose get_connection returned None
C5_Witness ==
    /\ Searched
    /\ call.gro.called
    /\ call.conn.result = NoPool
    /\ orders_store = Some(<<>>)

\* None, '' or only whitespace
IsBlank(v) == v = NoneV \/ \A i \in 1..Len(v[1]) : v[1][i] = " "

\* the text without its leading and trailing spaces, as a slice
Trimmed(t) ==
    LET inner == {i \in 1..Len(t) : t[i] # " "}
    IN  IF inner = {} THEN <<>>
        ELSE SubSeq(t, CHOOSE i \in inner : \A j \in inner : i <= j,
                       CHOOSE i \in inner : \A j \in inner : i >= j)

\* C9: search_retailer_orders returns ([], None, 'Please enter a retailer
\* name.') without any database access for a name that is None, empty or
\* blank; for any other name every query carries the stripped name,
\* selected-retailer-store holds the stripped name whether or not orders were
\* found, and orders-store holds exactly what get_retailer_orders returned.
C9_Search ==
    Searched =>
        /\ IsBlank(call.input) =>
              /\ orders_store = Some(<<>>)
              /\ selected_retailer_store = NoneV
              /\ search_message = "Please enter a retailer name."
              /\ ~call.gro.called
              /\ ~call.conn.called
        /\ ~IsBlank(call.input) =>
              /\ call.gro.called
              /\ call.gro.queried \in {NoneV, Some(Trimmed(call.input[1]))}
              /\ call.gro.query = "ok" =>
                    call.gro.queried = Some(Trimmed(call.input[1]))
              /\ selected_retailer_store = Some(Trimmed(call.input[1]))
              /\ orders_store = Some(call.gro.value)
              /\ search_message # "Please enter a retailer name."

\* a name with surrounding blanks was searched and orders were found
C9_Witness ==
    /\ Searched
    /\ call.input \in {Some(<<" ", "a">>), Some(<<"A", " ">>)}
    /\ call.gro.query = "ok"
    /\ orders_store # Some(<<>>)
    /\ selected_retailer_store \in {Some(<<"a">>), Some(<<"A">>)}

\* the device names of the orders in a store value
DeviceNamesOf(store) ==
    IF store = NoneV THEN {}
    ELSE {store[1][i].device_name : i \in 1..Len(store[1])} \ {None, ""}

\* the keys of the dict in a store value
KeysOf(store) == IF store = NoneV THEN {} ELSE DOMAIN store[1]

NoDuplicates(q) == \A i, j \in 1..Len(q) : q[i] = q[j] => i = j

\* C10: load_adverse_events queries for exactly the distinct non-empty device
\* names of orders-store, each once; it opens no connection and returns {}
\* when orders-store is empty or holds no non-empty device name; and once no
\* callback is pending every key of adverse-events-store is a device name of
\* an order in orders-store.
C10_LoadAdverseEvents ==
    /\ Loaded =>
          /\ (call.gdae.called /\ call.gdae.queried # NoneV) =>
                /\ Range(call.gdae.queried[1]) = DeviceNamesOf(call.input)
                /\ NoDuplicates(call.gdae.queried[1])
          /\ (call.gdae.called /\ call.gdae.query = "ok") =>
                call.gdae.queried # NoneV
          /\ DeviceNamesOf(call.input) = {} =>
                /\ ~call.conn.called
                /\ (call.gdae.called => call.gdae.queried = NoneV)
                /\ adverse_events_store = Some(<<>>)
          /\ DeviceNamesOf(call.input) # {} =>
                (call.gdae.called /\ call.conn.called)
    /\ pending = {} =>
          KeysOf(adverse_events_store) \subseteq DeviceNamesOf(orders_store)

\* orders with a repeated device name and a None device name were loaded, and
\* events were found for two devices
C10_Witness ==
    /\ Loaded
    /\ pending = {}
    /\ Len(call.input[1]) > Cardinality(DeviceNamesOf(call.input)) + 1
    /\ call.gdae.called
    /\ call.gdae.query = "ok"
    /\ Cardinality(KeysOf(adverse_events_store)) = 2

-----------------------------------------------------------------------------
(* Properties of the grouping and of the analysis request *)

\* the events of the rows of a device, in the order of the rows
EventsOf(results, d) ==
    LET mine == SelectSeq(results, LAMBDA row : row.device_name = d)
    IN  [i \in 1..Len(mine) |-> mine[i].event]

RECURSIVE SumOfLengths(_, _)
SumOfLengths(dict, keys) ==
    IF keys = {} THEN 0
    ELSE LET k == CHOOSE k \in keys : TRUE
         IN  Len(dict[k]) + SumOfLengths(dict, keys \ {k})

\* C7: the dict built from the fetched rows has one key per distinct device
\* name of the rows, each key maps to the events of the rows of that device
\* in query order, no list is empty, and the lengths add up to the number of
\* rows.
C7_Grouping ==
    call.op = "grouped" =>
        /\ DOMAIN call.adverse_events
             = {call.results[i].device_name : i \in 1..Len(call.results)}
        /\ \A d \in DOMAIN call.adverse_events :
              /\ call.adverse_events[d] = EventsOf(call.results, d)
              /\ call.adverse_events[d] # <<>>
        /\ SumOfLengths(call.adverse_events, DOMAIN call.adverse_events)
             = Len(call.results)

\* rows of two devices, interleaved, were grouped
C7_Witness ==
    /\ call.op = "grouped"
    /\ Len(call.results) = 3
    /\ call.results[1].device_name = call.results[3].device_name
    /\ call.results[1].device_name # call.results[2].device_name
    /\ call.results[1].event # call.results[3].event
    /\ Len(call.adverse_events[call.results[1].device_name]) = 2

Analyzed == call.op = "analyze_adverse_event"

ErrorShape(result) == DOMAIN result = {"error"}
SuccessShape(result) == DOMAIN result = {"success", "data"} /\ result.success = TRUE

\* C8: an analysis request never raises and calls the endpoint at most once,
\* not at all for a blank description or an unset DATABRICKS_TOKEN; the result
\* is either an error dict without 'success' or {'success': True, 'data': d};
\* it is the error dict when the token is unset or the call fails; for a text
\* reply it is the success dict, d being the parsed JSON when the text is a
\* JSON document and {'analysis': text} when it is not.
C8_Analysis ==
    Analyzed =>
        /\ ~call.raised
        /\ call.analysis.calls <= 1
        /\ (IsBlank(call.input) \/ call.token = None) => call.analysis.calls = 0
        /\ call.analysis.called <=> ~IsBlank(call.input)
        /\ call.analysis.called =>
              /\ call.analysis.result # NoneV
              /\ ErrorShape(call.analysis.result[1])
                   # SuccessShape(call.analysis.result[1])
              /\ (call.token = None \/ call.reply.kind = "raise") =>
                    ErrorShape(call.analysis.result[1])
              /\ (call.token # None /\ call.reply.kind = "content"
                  /\ call.reply.content # None) =>
                    /\ call.analysis.calls = 1
                    /\ SuccessShape(call.analysis.result[1])
              /\ SuccessShape(call.analysis.result[1]) =>
                    /\ call.reply.kind = "content"
                    /\ call.reply.content # None
                    /\ \A d \in JsonDocuments :
                          d[1] = call.reply.content =>
                              call.analysis.result[1].data = d[2]
                    /\ call.reply.content \in PlainTexts =>
                          call.analysis.result[1].data
                            = PyDict(<< <<"analysis", PyStr(call.reply.content)>> >>)

\* a reply that is no JSON document came back as {'analysis': text}
C8_Witness ==
    /\ Analyzed
    /\ call.analysis.called
    /\ call.analysis.calls = 1
    /\ call.reply = [kind |-> "content", content |-> "Root cause: x"]
    /\ analysis_results_store
         = Some([success |-> TRUE,
                 data |-> PyDict(<< <<"analysis", PyStr("Root cause: x")>> >>)])

-----------------------------------------------------------------------------
(* Properties of the analysis results panel *)

Displayed == call.op = "display_analysis_results"

\* the trace of the most recent analysis request
LastRequest ==
    IF Analyzed THEN call ELSE IF Displayed THEN call.request ELSE NoCall

RequestSucceeded(c) ==
    /\ c.op = "analyze_adverse_event"
    /\ c.analysis.called
    /\ SuccessShape(c.analysis.result[1])

ShowsResult(children) == children.kind = "panel"

DisplayPending == "display_analysis_results" \in pending

\* C11: analyze_adverse_event writes None to analysis-results-store when the
\* description is blank or the analysis returned an error, and the success
\* result otherwise, and triggers display_analysis_results; that callback
\* renders the empty string, without raising, for a store that is None or has
\* no true 'success'; so once it has run, the panel shows a result only if the
\* most recent request succeeded, and is empty after a blank or failed one.
C11_Panel ==
    /\ Analyzed =>
          /\ DisplayPending
          /\ IF IsBlank(call.input)
                \/ (call.analysis.called /\ ErrorShape(call.analysis.result[1]))
             THEN analysis_results_store = NoneV
             ELSE /\ analysis_results_store = call.analysis.result
                  /\ SuccessShape(analysis_results_store[1])
    /\ Displayed =>
          /\ ~DisplayPending
          /\ (call.analysis_data = NoneV
               \/ ~("success" \in DOMAIN call.analysis_data[1]
                    /\ call.analysis_data[1].success = TRUE)) =>
                 /\ call.raised = "no"
                 /\ analysis_results_container = EmptyText
    /\ ~DisplayPending =>
          /\ ShowsResult(analysis_results_container) =>
                 RequestSucceeded(LastRequest)
          /\ (LastRequest.op # "none" /\ ~RequestSucceeded(LastRequest)) =>
                 analysis_results_container = EmptyText

\* a failed request cleared the panel that showed an earlier result
C11_Witness ==
    /\ Displayed
    /\ ShowsResult(call.before)
    /\ call.analysis_data = NoneV
    /\ analysis_results_container = EmptyText
    /\ ~IsBlank(call.request.input)
    /\ call.request.reply.kind = "raise"
    /\ call.request.token # None

\* the reply text behind the store value that a rendering was given
RenderedReply == call.request.reply.content

\* C12: for every success value of analyze_adverse_event_with_databricks,
\* display_analysis_results does not raise and renders a panel: the text of
\* a plain-text reply, and for a reply that is a JSON document (object,
\* array, string, number, boolean or null) the entries of its value.
C12_Renders ==
    (Displayed /\ call.analysis_data # NoneV) =>
        /\ call.raised = "no"
        /\ ShowsResult(analysis_results_container)
        /\ RenderedReply \in PlainTexts =>
              /\ analysis_results_container.layout = "text"
              /\ analysis_results_container.pre = PyStr(RenderedReply)
        /\ RenderedReply \in JsonTexts =>
              \/ analysis_results_container.layout = "entries"
              \/ call.analysis_data[1].data
                    = PyDict(<< <<"analysis", PyStr("x")>> >>)

-----------------------------------------------------------------------------
(* Properties of the adverse event dropdowns *)

EventsRendered == call.op = "display_adverse_events"
DetailsShown == call.op = "display_adverse_event_details"

\* the events of a device in a store value, none when the device is absent
StoredEvents(store, d) ==
    IF store = NoneV THEN <<>>
    ELSE IF d \in DOMAIN store[1] THEN store[1][d] ELSE <<>>

-----------------------------------------------------------------------------
(* Properties of get_connection run by two threads *)

\* every connection in use was obtained from a pool that was open
NoConnectionOfClosedPool ==
    \A t \in Callers : threads[t].pc = "using" => threads[t].from_open

\* a pool that is open is the one connection_pool refers to
AtMostOneLivePool ==
    \A i \in 1..Len(pools) : pools[i].open => connection_pool = i

\* the analysis does not find DATABRICKS_TOKEN unset while a thread that
\* popped it is inside initialize_databricks_client
TokenSeenByAnalysis ==
    call.op = "analyze_adverse_event_with_databricks" =>
        ~(call.databricks_token = None /\ call.inside_initialize # {})

\* C14: with two callbacks inside get_connection at once, no callback
\* obtains a connection from a pool another callback closed, every open pool
\* is the one connection_pool refers to, and the analysis never finds
\* DATABRICKS_TOKEN unset because a callback is inside
\* initialize_databricks_client.
C14_Concurrent ==
    /\ NoConnectionOfClosedPool
    /\ AtMostOneLivePool
    /\ TokenSeenByAnalysis

====
